---- MODULE Spec2Model ----
\* A model of the pdfcat merge engine: the object graph of lopdf, page
\* extraction, rotation, the page-tree splice, bookmarks, metadata, the merge
\* pipeline of Merger::merge and the loaders of PdfReader.
EXTENDS Integers, Sequences, FiniteSets, TLC

\* ------------------------------------------------------------------ bounds
MaxSources == 3      \* length of the load-result list handed to merge
MaxPages == 2        \* pages of one source document
MaxPaths == 5        \* paths handed to load_all
MaxWorkers == 2      \* workers of load_parallel
MaxRangeItems == 2   \* items of a page range handed to extract_pages
MaxTurns == 5        \* a page's Rotate entry is within MaxTurns quarter turns of 0
MaxRotations == 2    \* successive calls of rotate_all_pages on one document
MaxInputs == 2       \* input paths of a CLI run
MaxCalls == 3        \* successive calls on one document of the bookmark API

\* the sequential-loading threshold of load_all
SequentialLimit == 3

\* ------------------------------------------------------- Option<T> values
None == <<>>
Some(x) == <<x>>
UnwrapOr(o, d) == IF o = <<>> THEN d ELSE o[1]

\* ------------------------------------------------------ Result<T> values
Ok(d) == [ok |-> TRUE, doc |-> d]
Err(e) == [ok |-> FALSE, err |-> e]
MergeFailed(msg) == [variant |-> "MergeFailed", msg |-> msg]
InvalidPageRange(total) == [variant |-> "InvalidPageRange", total_pages |-> total]
FailedToLoadPdf(path) == [variant |-> "FailedToLoadPdf", path |-> path]
FileNotFound(path) == [variant |-> "FileNotFound", path |-> path]
NoFilesToMerge == [variant |-> "NoFilesToMerge"]

\* ------------------------------------------------- objects of a Document
\* An object identifier is its number (the generation is always 0).
CatalogDict(pages, outlines) ==
    [kind |-> "Catalog", Pages |-> pages, Outlines |-> outlines]
PagesDict(kids, count) ==
    [kind |-> "Pages", Kids |-> kids, Count |-> count]
PageDict(parent, rotate, content) ==
    [kind |-> "Page", Parent |-> parent, Rotate |-> rotate, Content |-> content]
OutlinesDict(count, first, last) ==
    [kind |-> "Outlines", Count |-> count, First |-> first, Last |-> last]
OutlineItem(title, parent, dest, prev, next) ==
    [kind |-> "OutlineItem", Title |-> title, Parent |-> parent,
     Dest |-> dest, Prev |-> prev, Next |-> next]
EmptyInfo ==
    [kind |-> "Info", Title |-> None, Author |-> None, Subject |-> None,
     Keywords |-> None, Creator |-> None, Producer |-> None,
     CreationDate |-> None, ModDate |-> None]

EmptyDocument == [objects |-> <<>>, trailer |-> [Root |-> None, Info |-> None], max_id |-> 0]

Remap(r, id) == IF id \in DOMAIN r THEN r[id] ELSE id
RemapOpt(r, o) == IF o = <<>> THEN o ELSE <<Remap(r, o[1])>>
RemapSeq(r, s) == [i \in DOMAIN s |-> Remap(r, s[i])]

\* every Object::Reference inside obj rewritten through r
MapRefs(obj, r) ==
    CASE obj.kind = "Catalog" ->
           [obj EXCEPT !.Pages = Remap(r, @), !.Outlines = RemapOpt(r, @)]
      [] obj.kind = "Pages" -> [obj EXCEPT !.Kids = RemapSeq(r, @)]
      [] obj.kind = "Page" -> [obj EXCEPT !.Parent = Remap(r, @)]
      [] obj.kind = "Outlines" ->
           [obj EXCEPT !.First = RemapOpt(r, @), !.Last = RemapOpt(r, @)]
      [] obj.kind = "OutlineItem" ->
           [obj EXCEPT !.Parent = Remap(r, @), !.Dest = Remap(r, @),
                       !.Prev = RemapOpt(r, @), !.Next = RemapOpt(r, @)]
      [] OTHER -> obj

OptSet(o) == IF o = <<>> THEN {} ELSE {o[1]}
SeqSet(s) == {s[i] : i \in DOMAIN s}

\* the identifiers obj refers to
Refs(obj) ==
    CASE obj.kind = "Catalog" -> {obj.Pages} \cup OptSet(obj.Outlines)
      [] obj.kind = "Pages" -> SeqSet(obj.Kids)
      [] obj.kind = "Page" -> {obj.Parent}
      [] obj.kind = "Outlines" -> OptSet(obj.First) \cup OptSet(obj.Last)
      [] obj.kind = "OutlineItem" ->
           {obj.Parent, obj.Dest} \cup OptSet(obj.Prev) \cup OptSet(obj.Next)
      [] OTHER -> {}

TrailerRefs(trailer) == OptSet(trailer.Root) \cup OptSet(trailer.Info)

\* Document::catalog: the dictionary the trailer's Root refers to
catalog_id(doc) ==
    IF doc.trailer.Root # <<>>
       /\ doc.trailer.Root[1] \in DOMAIN doc.objects
       /\ doc.objects[doc.trailer.Root[1]].kind = "Catalog"
    THEN Some(doc.trailer.Root[1]) ELSE None

\* the Pages root the catalog refers to, when it resolves to a dictionary
\* with a Kids array
pages_root(doc) ==
    LET c == catalog_id(doc) IN
    IF c = <<>> THEN None
    ELSE LET pid == doc.objects[c[1]].Pages IN
         IF pid \in DOMAIN doc.objects /\ doc.objects[pid].kind = "Pages"
         THEN Some(pid) ELSE None

IsPage(doc, id) == id \in DOMAIN doc.objects /\ doc.objects[id].kind = "Page"

\* Document::get_pages: page number -> identifier, as the sequence of the
\* values in page-number order (the Kids of the Pages root whose target is a
\* dictionary of type Page)
get_pages(doc) ==
    LET p == pages_root(doc) IN
    IF p = <<>> THEN <<>>
    ELSE SelectSeq(doc.objects[p[1]].Kids, LAMBDA k : IsPage(doc, k))

\* Document::new_object_id
new_object_id(doc) == doc.max_id + 1

\* Document::renumber_objects_with: identifiers replaced by starting_id + k
\* in ascending order of the old identifier, every reference rewritten
renumber_objects_with(doc, starting_id) ==
    LET ids == DOMAIN doc.objects
        replace == [id \in ids |-> starting_id + Cardinality({y \in ids : y < id})]
        newIds == {replace[id] : id \in ids}
        old == [n \in newIds |-> CHOOSE id \in ids : replace[id] = n]
    IN [objects |-> [n \in newIds |-> MapRefs(doc.objects[old[n]], replace)],
        trailer |-> [Root |-> RemapOpt(replace, doc.trailer.Root),
                     Info |-> RemapOpt(replace, doc.trailer.Info)],
        max_id |-> starting_id + Cardinality(ids) - 1]

\* Document::renumber_objects
renumber_objects(doc) == renumber_objects_with(doc, 1)

RECURSIVE Reach(_, _)
Reach(doc, seen) ==
    LET next == UNION {Refs(doc.objects[id]) : id \in seen \cap DOMAIN doc.objects}
    IN IF next \subseteq seen THEN seen ELSE Reach(doc, seen \cup next)

\* the identifiers reachable from the trailer
Reachable(doc) == Reach(doc, TrailerRefs(doc.trailer))

\* Document::prune_objects: objects unreachable from the trailer are removed
prune_objects(doc) ==
    LET keep == Reachable(doc) \cap DOMAIN doc.objects
    IN [doc EXCEPT !.objects = [id \in keep |-> doc.objects[id]]]

\* Document::compress: stream payloads are re-encoded; dictionaries,
\* references and identifiers are left as they are
compress(doc) == doc

\* ----------------------------------------------------- config::PageRange
Single(p) == [tag |-> "Single", start |-> p, end |-> p]
Range(a, b) == [tag |-> "Range", start |-> a, end |-> b]

\* PageRange::contains
contains(page_range, page) ==
    \E i \in DOMAIN page_range :
        IF page_range[i].tag = "Single" THEN page_range[i].start = page
        ELSE page >= page_range[i].start /\ page <= page_range[i].end

RECURSIVE sort_unstable(_)
sort_unstable(s) ==
    IF s = <<>> THEN <<>>
    ELSE LET m == CHOOSE x \in SeqSet(s) : \A y \in SeqSet(s) : x <= y
             i == CHOOSE j \in DOMAIN s : s[j] = m
         IN <<m>> \o sort_unstable(SubSeq(s, 1, i - 1) \o SubSeq(s, i + 1, Len(s)))

\* Vec::dedup: consecutive repeats removed
RECURSIVE dedup(_)
dedup(s) ==
    IF Len(s) <= 1 THEN s
    ELSE IF s[1] = s[2] THEN dedup(Tail(s))
    ELSE <<s[1]>> \o dedup(Tail(s))

RECURSIVE pages_of_items(_, _)
pages_of_items(page_range, max_pages) ==
    IF page_range = <<>> THEN <<>>
    ELSE SelectSeq([p \in 1..max_pages |-> p],
                   LAMBDA p : p >= Head(page_range).start /\ p <= Head(page_range).end)
         \o pages_of_items(Tail(page_range), max_pages)

\* to_pages collecting the pages item by item, without sorting
to_pages_in_item_order(page_range, max_pages) ==
    dedup(pages_of_items(page_range, max_pages))

\* PageRange::to_pages
to_pages(page_range, max_pages) ==
    dedup(sort_unstable(SelectSeq([p \in 1..max_pages |-> p],
                                  LAMBDA p : contains(page_range, p))))

\* --------------------------------------------------- merge::pages
\* PageExtractor::update_page_tree
update_page_tree(doc, page_ids) ==
    IF catalog_id(doc) = None THEN Err(MergeFailed("Failed to get catalog"))
    ELSE LET pages_id == doc.objects[catalog_id(doc)[1]].Pages IN
         IF pages_id \notin DOMAIN doc.objects
         THEN Err(MergeFailed("Failed to get pages object"))
         ELSE IF doc.objects[pages_id].kind # "Pages"
         THEN Err(MergeFailed("Pages object is not a dictionary"))
         ELSE Ok([doc EXCEPT !.objects[pages_id] =
                     [@ EXCEPT !.Kids = page_ids, !.Count = Some(Len(page_ids))]])

RECURSIVE filter_map_get(_, _)
\* requested_pages.iter().filter_map(|n| all_pages.get(n).copied())
filter_map_get(requested_pages, all_pages) ==
    IF requested_pages = <<>> THEN <<>>
    ELSE (IF Head(requested_pages) \in DOMAIN all_pages
          THEN <<all_pages[Head(requested_pages)]>> ELSE <<>>)
         \o filter_map_get(Tail(requested_pages), all_pages)

\* extract_pages without the check for an empty selection
extract_requested_unchecked(doc, all_pages, max_pages, requested_pages) ==
    update_page_tree(doc, filter_map_get(requested_pages, all_pages))

\* extract_pages, once requested_pages is computed
extract_requested(doc, all_pages, max_pages, requested_pages) ==
    IF requested_pages = <<>> THEN Err(MergeFailed("No pages in range"))
    ELSE IF \E i \in DOMAIN requested_pages : requested_pages[i] > max_pages
    THEN Err(InvalidPageRange(max_pages))
    ELSE IF filter_map_get(requested_pages, all_pages) = <<>>
    THEN Err(MergeFailed("Failed to extract pages"))
    ELSE update_page_tree(doc, filter_map_get(requested_pages, all_pages))

\* extract_pages, once all_pages is computed
extract_from(doc, all_pages, page_range) ==
    extract_requested(doc, all_pages, Len(all_pages),
                      to_pages(page_range, Len(all_pages)))

\* PageExtractor::extract_pages
extract_pages(doc, page_range) == extract_from(doc, get_pages(doc), page_range)

\* the % of i64: the remainder has the sign of the dividend
Rem(a, b) == IF a >= 0 THEN a % b ELSE 0 - ((0 - a) % b)

\* PageExtractor::rotate_page
rotate_page(doc, page_id, degrees) ==
    IF page_id \notin DOMAIN doc.objects THEN Err(MergeFailed("Failed to get page"))
    ELSE LET current_rotation == UnwrapOr(doc.objects[page_id].Rotate, 0)
             new_rotation == Rem(current_rotation + degrees, 360)
         IN Ok([doc EXCEPT !.objects[page_id].Rotate = Some(new_rotation)])

RECURSIVE rotate_each(_, _, _)
rotate_each(doc, page_ids, degrees) ==
    IF page_ids = <<>> THEN Ok(doc)
    ELSE LET r == rotate_page(doc, Head(page_ids), degrees)
         IN IF r.ok THEN rotate_each(r.doc, Tail(page_ids), degrees) ELSE r

\* PageExtractor::rotate_all_pages
rotate_all_pages(doc, rotation_degrees) ==
    IF rotation_degrees = 0 THEN Ok(doc)
    ELSE rotate_each(doc, get_pages(doc), rotation_degrees)

\* --------------------------------------------------- merge::merger
\* add_pages_to_tree inserting the new references before the existing Kids
add_pages_to_tree_prepend(merged_doc, page_ids) ==
    LET pages_id == merged_doc.objects[catalog_id(merged_doc)[1]].Pages
        dict == merged_doc.objects[pages_id]
    IN Ok([merged_doc EXCEPT !.objects[pages_id] =
              [dict EXCEPT !.Kids = page_ids \o dict.Kids,
                           !.Count = Some(UnwrapOr(dict.Count, 0) + Len(page_ids))]])

\* Merger::add_pages_to_tree
add_pages_to_tree(merged_doc, page_ids) ==
    IF catalog_id(merged_doc) = None THEN Err(MergeFailed("Failed to get catalog"))
    ELSE LET pages_id == merged_doc.objects[catalog_id(merged_doc)[1]].Pages IN
         IF pages_id \notin DOMAIN merged_doc.objects
         THEN Err(MergeFailed("Failed to get pages object"))
         ELSE IF merged_doc.objects[pages_id].kind # "Pages"
         THEN Err(MergeFailed("Pages object is not a dictionary"))
         ELSE LET dict == merged_doc.objects[pages_id]
                  current_count == UnwrapOr(dict.Count, 0)
                  new_count == current_count + Len(page_ids)
              IN Ok([merged_doc EXCEPT !.objects[pages_id] =
                        [dict EXCEPT !.Kids = dict.Kids \o page_ids,
                                     !.Count = Some(new_count)]])

\* --------------------------------------------------- merge::bookmarks
BookmarkFailed == [variant |-> "BookmarkFailed"]

\* Dictionary::set for each key of upd
SetKeys(dict, upd) == upd @@ dict

\* create_outline_structure without the Prev links
create_outline_structure_no_prev(doc, items) ==
    LET n == Len(items)
        outline_id == new_object_id(doc)
        inserted == [id \in outline_id..(outline_id + n) |->
                        IF id = outline_id
                        THEN OutlinesDict(n, Some(outline_id + 1), Some(outline_id + n))
                        ELSE OutlineItem(items[id - outline_id].title, outline_id,
                                         items[id - outline_id].page_id, None,
                                         IF id < outline_id + n THEN Some(id + 1)
                                         ELSE None)]
    IN Ok([doc EXCEPT !.objects = (catalog_id(doc)[1] :>
                                      [doc.objects[catalog_id(doc)[1]] EXCEPT
                                          !.Outlines = Some(outline_id)])
                                  @@ inserted @@ doc.objects,
                      !.max_id = outline_id + n])

\* BookmarkManager::create_outline_structure
create_outline_structure(doc, items) ==
    LET n == Len(items)
        outline_id == new_object_id(doc)
        item_ids == [i \in 1..n |-> outline_id + i]
        item(i) == OutlineItem(items[i].title, outline_id, items[i].page_id,
                               IF i > 1 THEN Some(item_ids[i - 1]) ELSE None,
                               IF i < n THEN Some(item_ids[i + 1]) ELSE None)
        outline_dict == OutlinesDict(n,
                                     IF n > 0 THEN Some(item_ids[1]) ELSE None,
                                     IF n > 0 THEN Some(item_ids[n]) ELSE None)
        inserted == [id \in outline_id..(outline_id + n) |->
                        IF id = outline_id THEN outline_dict ELSE item(id - outline_id)]
        doc1 == [doc EXCEPT !.objects = inserted @@ doc.objects,
                            !.max_id = outline_id + n]
    IN IF catalog_id(doc1) = None THEN Err(BookmarkFailed)
       ELSE Ok([doc1 EXCEPT !.objects[catalog_id(doc1)[1]].Outlines = Some(outline_id)])

RECURSIVE outline_items(_, _, _, _)
\* the loop of add_bookmarks_for_files over file_paths, from file_idx on
outline_items(pages, file_paths, pages_per_file, file_idx) ==
    IF file_idx >= Len(file_paths) THEN <<>>
    ELSE LET page_idx == file_idx * pages_per_file IN
         IF page_idx >= Len(pages) THEN <<>>
         ELSE <<[title |-> file_paths[file_idx + 1], page_id |-> pages[page_idx + 1]]>>
              \o outline_items(pages, file_paths, pages_per_file, file_idx + 1)

\* BookmarkManager::add_bookmarks_for_files
add_bookmarks_for_files(doc, file_paths) ==
    LET pages == get_pages(doc)
        pages_per_file == IF Len(file_paths) > 1
                          THEN Len(pages) \div Len(file_paths) ELSE Len(pages)
        items == outline_items(pages, file_paths, pages_per_file, 0)
    IN IF file_paths = <<>> \/ pages = <<>> \/ items = <<>> THEN Ok(doc)
       ELSE create_outline_structure(doc, items)

\* BookmarkManager::has_bookmarks
has_bookmarks(doc) ==
    catalog_id(doc) # None /\ doc.objects[catalog_id(doc)[1]].Outlines # None

\* remove_bookmarks leaving the catalog as it is
remove_bookmarks_keeping_entry(doc) == doc

\* remove_bookmarks deleting the outline root object as well
remove_bookmarks_deleting_root(doc) ==
    IF catalog_id(doc) = None THEN doc
    ELSE [doc EXCEPT !.objects =
             [id \in DOMAIN doc.objects \ OptSet(doc.objects[catalog_id(doc)[1]].Outlines)
                 |-> IF id = catalog_id(doc)[1]
                     THEN [doc.objects[id] EXCEPT !.Outlines = None]
                     ELSE doc.objects[id]]]

\* BookmarkManager::remove_bookmarks
remove_bookmarks(doc) ==
    IF catalog_id(doc) = None THEN doc
    ELSE [doc EXCEPT !.objects[catalog_id(doc)[1]].Outlines = None]

\* --------------------------------------------------- merge::metadata
\* Metadata::is_empty
is_empty(metadata) ==
    metadata.title = None /\ metadata.author = None
    /\ metadata.subject = None /\ metadata.keywords = None

NoMetadata == [title |-> None, author |-> None, subject |-> None, keywords |-> None]

\* set_metadata writing the four fields whether supplied or not
metadata_keys_all(metadata, date_str) ==
    [Title |-> metadata.title, Author |-> metadata.author,
     Subject |-> metadata.subject, Keywords |-> metadata.keywords,
     Creator |-> Some("pdfcat"), Producer |-> Some("pdfcat"),
     CreationDate |-> Some(date_str), ModDate |-> Some(date_str)]

\* the fields set_metadata writes: the supplied ones and the four stamps
metadata_keys(metadata, date_str) ==
    LET opt(key, v) == IF v = None THEN <<>> ELSE (key :> v)
    IN opt("Title", metadata.title) @@ opt("Author", metadata.author)
       @@ opt("Subject", metadata.subject) @@ opt("Keywords", metadata.keywords)
       @@ [Creator |-> Some("pdfcat"), Producer |-> Some("pdfcat"),
           CreationDate |-> Some(date_str), ModDate |-> Some(date_str)]

\* set_metadata without the early return for empty metadata
set_metadata_unconditional(doc, metadata, date_str) ==
    LET info_id == IF doc.trailer.Info # None THEN doc.trailer.Info[1]
                   ELSE new_object_id(doc)
        doc1 == IF doc.trailer.Info # None THEN doc
                ELSE [doc EXCEPT !.max_id = info_id,
                                 !.trailer.Info = Some(info_id)]
        info_dict == IF info_id \in DOMAIN doc1.objects
                     THEN doc1.objects[info_id] ELSE EmptyInfo
    IN Ok([doc1 EXCEPT !.objects =
              (info_id :> SetKeys(info_dict, metadata_keys(metadata, date_str)))
              @@ doc1.objects])

\* MetadataManager::set_metadata
set_metadata(doc, metadata, date_str) ==
    IF is_empty(metadata) THEN Ok(doc)
    ELSE LET info_id == IF doc.trailer.Info # None THEN doc.trailer.Info[1]
                        ELSE new_object_id(doc)
             doc1 == IF doc.trailer.Info # None THEN doc
                     ELSE [doc EXCEPT !.max_id = info_id,
                                      !.trailer.Info = Some(info_id)]
             info_dict == IF info_id \in DOMAIN doc1.objects
                          THEN doc1.objects[info_id] ELSE EmptyInfo
         IN Ok([doc1 EXCEPT !.objects =
                   (info_id :> SetKeys(info_dict, metadata_keys(metadata, date_str)))
                   @@ doc1.objects])

\* MetadataManager::get_string_field
get_string_field(dict, key) == IF key \in DOMAIN dict THEN dict[key] ELSE None

\* MetadataManager::get_metadata
get_metadata(doc) ==
    IF doc.trailer.Info = None \/ doc.trailer.Info[1] \notin DOMAIN doc.objects
    THEN NoMetadata
    ELSE [title |-> get_string_field(doc.objects[doc.trailer.Info[1]], "Title"),
          author |-> get_string_field(doc.objects[doc.trailer.Info[1]], "Author"),
          subject |-> get_string_field(doc.objects[doc.trailer.Info[1]], "Subject"),
          keywords |-> get_string_field(doc.objects[doc.trailer.Info[1]], "Keywords")]

\* --------------------------------------------------- io::reader
PdfFile(pages, count) == [kind |-> "pdf", pages |-> pages, count |-> count]
InvalidFile == [kind |-> "invalid"]
MissingFile == [kind |-> "missing"]
EncryptedFile == [kind |-> "encrypted"]
EncryptedPdf(path) == [variant |-> "EncryptedPdf", path |-> path]
CorruptedPdf(path) == [variant |-> "CorruptedPdf", path |-> path]

\* the object graph Document::load builds from a PDF file of the given
\* number of pages: catalog, Pages root, then the pages; the Count entry of
\* the Pages root is as the file has it. The odd pages of a file have no
\* Rotate entry, the even ones have 270 or -180.
ParsedDocument(path, file) ==
    LET n == file.pages
        page(k) == PageDict(2,
                            IF k % 2 = 1 THEN None
                            ELSE IF path % 2 = 1 THEN Some(270) ELSE Some(0 - 180),
                            <<path, k>>)
    IN [objects |-> [id \in 1..(2 + n) |->
                        IF id = 1 THEN CatalogDict(2, None)
                        ELSE IF id = 2
                        THEN PagesDict([k \in 1..n |-> 2 + k],
                                       IF file.count = "ok" THEN Some(n) ELSE None)
                        ELSE page(id - 2)],
        trailer |-> [Root |-> Some(1), Info |-> None],
        max_id |-> 2 + n]

\* PdfReader::load (verify = true) of the file at path; Document::load fails
\* alike on a path with no file and on a file that is not a PDF
load(path, file) ==
    IF file.kind = "encrypted" THEN [ok |-> FALSE, err |-> EncryptedPdf(path)]
    ELSE IF file.kind # "pdf" THEN [ok |-> FALSE, err |-> FailedToLoadPdf(path)]
    ELSE LET doc == ParsedDocument(path, file) IN
         IF get_pages(doc) = <<>> THEN [ok |-> FALSE, err |-> CorruptedPdf(path)]
         ELSE [ok |-> TRUE,
               loaded |-> [document |-> doc, path |-> path,
                           page_count |-> Len(get_pages(doc))]]

\* --------------------------------------------------- validation
EmptyFile == [kind |-> "empty"]
DirectoryFile == [kind |-> "directory"]
NotAFile(path) == [variant |-> "NotAFile", path |-> path]
OutputExists == [variant |-> "OutputExists"]
InvalidConfig(msg) == [variant |-> "InvalidConfig", msg |-> msg]
Cancelled == [variant |-> "Cancelled"]
FailedToWrite == [variant |-> "FailedToWrite"]

\* Validator::validate_file of the file at path (the metadata of a file that
\* exists can be read)
validate_file(path, file) ==
    IF file.kind = "missing" THEN Err(FileNotFound(path))
    ELSE IF file.kind = "directory" THEN Err(NotAFile(path))
    ELSE IF file.kind = "empty" THEN Err(CorruptedPdf(path))
    ELSE IF file.kind = "encrypted" THEN Err(EncryptedPdf(path))
    ELSE IF file.kind # "pdf" THEN Err(FailedToLoadPdf(path))
    ELSE IF get_pages(ParsedDocument(path, file)) = <<>> THEN Err(CorruptedPdf(path))
    ELSE [ok |-> TRUE,
          result |-> [path |-> path,
                      page_count |-> Len(get_pages(ParsedDocument(path, file)))]]

RECURSIVE validate_each(_, _, _, _)
\* the loop of validate_files over the paths from i on
validate_each(files, i, continue_on_error, summary) ==
    IF i > Len(files) THEN [ok |-> TRUE, summary |-> summary]
    ELSE IF validate_file(i, files[i]).ok
    THEN validate_each(files, i + 1, continue_on_error,
             [summary EXCEPT !.results = Append(@, validate_file(i, files[i]).result)])
    ELSE IF continue_on_error
    THEN validate_each(files, i + 1, continue_on_error,
             [summary EXCEPT !.files_failed = @ + 1])
    ELSE Err(validate_file(i, files[i]).err)

\* validate_files after its loop: the check for an empty result
summary_or_no_files(r) ==
    IF r.ok /\ r.summary.results = <<>> THEN Err(NoFilesToMerge) ELSE r

\* Validator::validate_files
validate_files(files, continue_on_error) ==
    summary_or_no_files(validate_each(files, 1, continue_on_error,
                                      [results |-> <<>>, files_failed |-> 0]))

\* Validator::validate_output; an output path that exists can be
\* canonicalized, and its parent directory exists
validate_output(cfg, out) ==
    IF out.exists /\ cfg.overwrite_mode = "NoClobber" THEN Err(OutputExists)
    ELSE IF out.exists /\ out.dir_readonly
    THEN Err(InvalidConfig("Output directory is not writable"))
    ELSE [ok |-> TRUE]

\* requested_pages.iter().max()
iter_max(s) ==
    IF s = <<>> THEN None
    ELSE Some(CHOOSE m \in {s[i] : i \in DOMAIN s} : \A i \in DOMAIN s : s[i] <= m)

RECURSIVE validate_page_range(_, _, _)
\* validate_config: the loop over summary.results checking the page range
validate_page_range(results, page_range, summary) ==
    IF results = <<>> THEN [ok |-> TRUE, summary |-> summary]
    ELSE IF iter_max(to_pages(page_range, Head(results).page_count)) # None
            /\ iter_max(to_pages(page_range, Head(results).page_count))[1]
                   > Head(results).page_count
    THEN Err(InvalidPageRange(Head(results).page_count))
    ELSE validate_page_range(Tail(results), page_range, summary)

\* validate_config after validate_files returned r
validate_config_after_files(r, cfg, out) ==
    IF ~r.ok THEN r
    ELSE IF ~validate_output(cfg, out).ok THEN validate_output(cfg, out)
    ELSE IF cfg.page_range # None
    THEN validate_page_range(r.summary.results, cfg.page_range[1], r.summary)
    ELSE r

\* Validator::validate_config
validate_config(files, cfg, out) ==
    validate_config_after_files(validate_files(files, cfg.continue_on_error), cfg, out)

\* handle_output_overwrite; response is the line read from the terminal
handle_output_overwrite(cfg, out, response) ==
    IF ~out.exists THEN [ok |-> TRUE]
    ELSE IF cfg.overwrite_mode = "Force" THEN [ok |-> TRUE]
    ELSE IF cfg.overwrite_mode = "NoClobber" THEN Err(OutputExists)
    ELSE IF cfg.quiet THEN Err(OutputExists)
    ELSE IF response \in {"y", "yes"} THEN [ok |-> TRUE]
    ELSE Err(Cancelled)

\* ------------------------------------------------------------ the state
VARIABLES
    pc,            \* position in Merger::merge / PdfReader::load_all
    config,        \* the Config handed to merge
    load_results,  \* Vec<LoadResult> returned by load_all
    loaded_pdfs,   \* merge: the successfully loaded sources
    merged,        \* merge_documents: the accumulating document
    max_id,        \* merge_documents: the running max id
    idx,           \* merge_documents: index of the next source to absorb
    outcome,       \* what merge returned
    paths,         \* load_all: the files at the input paths
    workers,       \* load_parallel: concurrency limit
    next_path,     \* load_parallel: next task the stream hands out
    in_flight,     \* load_parallel: tasks in the buffer
    output_file,   \* run: the file system at config.output
    run_result     \* run: what run returned

vars == <<pc, config, load_results, loaded_pdfs, merged, max_id, idx, outcome,
          paths, workers, next_path, in_flight, output_file, run_result>>

mergeVars == <<config, loaded_pdfs, merged, max_id, idx, outcome>>
loadVars == <<paths, workers, next_path, in_flight>>
cliVars == <<output_file, run_result>>

NoOutcome == [status |-> "none"]
\* no file at the output path, in a directory that can be written
NoOutputFile == [exists |-> FALSE, dir_readonly |-> FALSE, written |-> FALSE]
Failed(e) == [status |-> "err", err |-> e]

\* the sequences over S of length lo..hi
SeqsOf(S, lo, hi) == UNION {[1..n -> S] : n \in lo..hi}

\* ------------------------------------------------------- configurations
Rotations == {None, Some(90), Some(180), Some(270)}
CompressionLevels == {"None", "Standard", "Maximum"}
PageRanges ==
    {None, Some(<<Single(1)>>), Some(<<Single(2)>>), Some(<<Single(2), Single(1)>>),
     Some(<<Range(1, MaxPages + 1)>>), Some(<<Single(MaxPages + 1)>>)}
Metadatas == {NoMetadata, [NoMetadata EXCEPT !.title = Some("T")]}
Configs ==
    [continue_on_error : BOOLEAN, page_range : PageRanges, rotation : Rotations,
     bookmarks : BOOLEAN, metadata : Metadatas, compression : CompressionLevels]
NoConfig == [continue_on_error |-> FALSE, page_range |-> None, rotation |-> None,
             bookmarks |-> FALSE, metadata |-> NoMetadata, compression |-> "None"]

\* the files the merge model loads
MergeFiles == {InvalidFile, MissingFile} \cup {PdfFile(n, "ok") : n \in 1..MaxPages}
              \cup {PdfFile(MaxPages, "absent")}

\* ------------------------------------------------ Merger::merge, by steps
\* merge, after load_all returned: load result i is the outcome for path i
Init ==
    /\ output_file = NoOutputFile
    /\ run_result = NoOutcome
    /\ pc = "separate"
    /\ config \in Configs
    /\ paths \in SeqsOf(MergeFiles, 1, MaxSources)
    /\ load_results = [i \in DOMAIN paths |-> load(i, paths[i])]
    /\ loaded_pdfs = <<>>
    /\ merged = EmptyDocument
    /\ max_id = 0
    /\ idx = 0
    /\ outcome = NoOutcome
    /\ workers = 0
    /\ next_path = 0
    /\ in_flight = {}

RECURSIVE separate_break(_, _, _)
\* the loop of merge leaving at the first failure it is told to skip
separate_break(results, continue_on_error, acc) ==
    IF results = <<>> THEN [ok |-> TRUE, loaded |-> acc]
    ELSE IF Head(results).ok
    THEN separate_break(Tail(results), continue_on_error, Append(acc, Head(results).loaded))
    ELSE IF continue_on_error THEN [ok |-> TRUE, loaded |-> acc]
    ELSE [ok |-> FALSE, err |-> Head(results).err]

RECURSIVE separate_last_error(_, _, _)
\* the loop of merge remembering the most recent failure instead of
\* returning at the first
separate_last_error(results, continue_on_error, acc) ==
    IF results = <<>> THEN acc
    ELSE IF Head(results).ok
    THEN separate_last_error(Tail(results), continue_on_error,
             IF acc.ok THEN [acc EXCEPT !.loaded = Append(@, Head(results).loaded)]
             ELSE acc)
    ELSE IF continue_on_error
    THEN separate_last_error(Tail(results), continue_on_error, acc)
    ELSE separate_last_error(Tail(results), continue_on_error,
                             [ok |-> FALSE, err |-> Head(results).err])

separate_returning_last(results, continue_on_error, acc) ==
    separate_last_error(results, continue_on_error, [ok |-> TRUE, loaded |-> acc])

RECURSIVE separate(_, _, _)
\* the loop of merge over load_results: the loaded sources, or the error
\* merge returns
separate(results, continue_on_error, acc) ==
    IF results = <<>> THEN [ok |-> TRUE, loaded |-> acc]
    ELSE IF Head(results).ok
    THEN separate(Tail(results), continue_on_error, Append(acc, Head(results).loaded))
    ELSE IF continue_on_error THEN separate(Tail(results), continue_on_error, acc)
    ELSE [ok |-> FALSE, err |-> Head(results).err]

\* merge: separate successful loads from failures, then the empty check
SeparateLoads ==
    /\ pc = "separate"
    /\ \E r \in {separate(load_results, config.continue_on_error, <<>>)} :
       IF ~r.ok THEN
           /\ outcome' = Failed(r.err) /\ pc' = "done" /\ UNCHANGED loaded_pdfs
       ELSE IF r.loaded = <<>> THEN
           /\ outcome' = Failed(NoFilesToMerge) /\ pc' = "done"
           /\ UNCHANGED loaded_pdfs
       ELSE
           /\ loaded_pdfs' = r.loaded /\ pc' = "base" /\ UNCHANGED outcome
    /\ UNCHANGED <<config, load_results, merged, max_id, idx>>
    /\ UNCHANGED loadVars
    /\ UNCHANGED cliVars

\* merge_documents: the rotation step, on the result of the extraction step
rotate_extracted(e, cfg) ==
    IF ~e.ok THEN e
    ELSE IF cfg.rotation # None THEN rotate_all_pages(e.doc, cfg.rotation[1])
    ELSE e

\* the extraction and rotation merge_documents applies to one source
prepare(doc, cfg) ==
    rotate_extracted(IF cfg.page_range # None
                     THEN extract_pages(doc, cfg.page_range[1])
                     ELSE Ok(doc),
                     cfg)

\* merge_documents: the first document becomes the base
EstablishBase ==
    /\ pc = "base"
    /\ \E r \in {prepare(loaded_pdfs[1].document, config)} :
       IF ~r.ok THEN
           /\ outcome' = Failed(r.err) /\ pc' = "done"
           /\ UNCHANGED <<merged, max_id, idx>>
       ELSE
           /\ merged' = r.doc
           /\ max_id' = loaded_pdfs[1].document.max_id
           /\ idx' = 2
           /\ pc' = IF Len(loaded_pdfs) >= 2 THEN "absorb" ELSE "bookmarks"
           /\ UNCHANGED outcome
    /\ UNCHANGED <<config, load_results, loaded_pdfs>>
    /\ UNCHANGED loadVars
    /\ UNCHANGED cliVars

\* the loop body's result: the spliced document and max_id = doc.max_id
spliced(s, new_max) ==
    IF ~s.ok THEN s ELSE [ok |-> TRUE, doc |-> s.doc, max_id |-> new_max]

\* the loop body after the renumbering, without
\* merged.objects.extend(doc.objects)
absorb_without_extend(merged_doc, doc) ==
    spliced(add_pages_to_tree(merged_doc, get_pages(doc)), doc.max_id)

\* the loop body after the renumbering: doc is the renumbered source
absorb_renumbered(merged_doc, doc) ==
    spliced(add_pages_to_tree(
                [merged_doc EXCEPT !.objects = doc.objects @@ merged_doc.objects],
                get_pages(doc)),
            doc.max_id)

\* the loop body leaving out a source whose extraction or rotation failed
absorb_skipping_failed(merged_doc, running_max, r) ==
    IF ~r.ok THEN [ok |-> TRUE, doc |-> merged_doc, max_id |-> running_max]
    ELSE absorb_renumbered(merged_doc, renumber_objects_with(r.doc, running_max + 1))

\* the loop body renumbering the source from max_id on instead of max_id + 1
absorb_renumbering_at_max_id(merged_doc, running_max, r) ==
    IF ~r.ok THEN r
    ELSE absorb_renumbered(merged_doc, renumber_objects_with(r.doc, running_max))

\* the loop body after extraction and rotation, whose result is r
absorb_prepared(merged_doc, running_max, r) ==
    IF ~r.ok THEN r
    ELSE absorb_renumbered(merged_doc, renumber_objects_with(r.doc, running_max + 1))

\* one iteration of the loop of merge_documents over loaded_pdfs[1..]
absorb(merged_doc, running_max, source, cfg) ==
    absorb_prepared(merged_doc, running_max, prepare(source, cfg))

AbsorbSource ==
    /\ pc = "absorb"
    /\ \E r \in {absorb(merged, max_id, loaded_pdfs[idx].document, config)} :
       IF ~r.ok THEN
           /\ outcome' = Failed(r.err) /\ pc' = "done"
           /\ UNCHANGED <<merged, max_id, idx>>
       ELSE
           /\ merged' = r.doc
           /\ max_id' = r.max_id
           /\ idx' = idx + 1
           /\ pc' = IF idx + 1 <= Len(loaded_pdfs) THEN "absorb" ELSE "bookmarks"
           /\ UNCHANGED outcome
    /\ UNCHANGED <<config, load_results, loaded_pdfs>>
    /\ UNCHANGED loadVars
    /\ UNCHANGED cliVars

\* merge_documents: add bookmarks if requested
AddBookmarks ==
    /\ pc = "bookmarks"
    /\ \E r \in {IF config.bookmarks
                 THEN add_bookmarks_for_files(merged,
                          [i \in DOMAIN loaded_pdfs |-> loaded_pdfs[i].path])
                 ELSE Ok(merged)} :
          IF ~r.ok THEN
              /\ outcome' = Failed(r.err) /\ pc' = "done" /\ UNCHANGED merged
          ELSE
              /\ merged' = r.doc /\ pc' = "metadata" /\ UNCHANGED outcome
    /\ UNCHANGED <<config, load_results, loaded_pdfs, max_id, idx>>
    /\ UNCHANGED loadVars
    /\ UNCHANGED cliVars

\* merge_documents: set metadata if specified
SetMetadata ==
    /\ pc = "metadata"
    /\ merged' = IF ~is_empty(config.metadata)
                 THEN set_metadata(merged, config.metadata, "D:now").doc
                 ELSE merged
    /\ pc' = "compress"
    /\ UNCHANGED <<config, load_results, loaded_pdfs, max_id, idx, outcome>>
    /\ UNCHANGED loadVars
    /\ UNCHANGED cliVars

\* the compression match without prune_objects at level Maximum
compact_without_prune(doc, level) ==
    IF level = "None" THEN doc ELSE compress(doc)

\* merge_documents: the match on config.compression
compact(doc, level) ==
    CASE level = "None" -> doc
      [] level = "Standard" -> compress(doc)
      [] OTHER -> prune_objects(compress(doc))

\* merge_documents: compression by level
Compress ==
    /\ pc = "compress"
    /\ merged' = compact(merged, config.compression)
    /\ pc' = "renumber"
    /\ UNCHANGED <<config, load_results, loaded_pdfs, max_id, idx, outcome>>
    /\ UNCHANGED loadVars
    /\ UNCHANGED cliVars

\* merge_documents returning without the final renumbering
FinalRenumberSkipped ==
    /\ pc = "renumber"
    /\ pc' = "statistics"
    /\ UNCHANGED <<config, load_results, loaded_pdfs, merged, max_id, idx, outcome>>
    /\ UNCHANGED loadVars
    /\ UNCHANGED cliVars

\* merge_documents: the final renumbering, and its return
FinalRenumber ==
    /\ pc = "renumber"
    /\ merged' = renumber_objects(merged)
    /\ pc' = "statistics"
    /\ UNCHANGED <<config, load_results, loaded_pdfs, max_id, idx, outcome>>
    /\ UNCHANGED loadVars
    /\ UNCHANGED cliVars

\* merge: the statistics and the MergeResult
BuildResult ==
    /\ pc = "statistics"
    /\ outcome' = [status |-> "ok",
                   document |-> merged,
                   statistics |-> [files_merged |-> Len(loaded_pdfs),
                                   total_pages |-> Len(get_pages(merged)),
                                   bookmarks_added |-> 0,
                                   compressed |-> config.compression # "None"],
                   merged_files |-> [i \in DOMAIN loaded_pdfs |-> loaded_pdfs[i].path]]
    /\ pc' = "done"
    /\ UNCHANGED <<config, load_results, loaded_pdfs, merged, max_id, idx>>
    /\ UNCHANGED loadVars
    /\ UNCHANGED cliVars

Next ==
    \/ SeparateLoads
    \/ EstablishBase
    \/ AbsorbSource
    \/ AddBookmarks
    \/ SetMetadata
    \/ Compress
    \/ FinalRenumber
    \/ BuildResult

Spec == Init /\ [][Next]_vars

\* ------------------------------------------- PdfReader::load_all, by steps
LoadFiles == {InvalidFile, EncryptedFile, PdfFile(0, "ok"), PdfFile(1, "ok")}

InitLoad ==
    /\ output_file = NoOutputFile
    /\ run_result = NoOutcome
    /\ pc = "load_all"
    /\ paths \in SeqsOf(LoadFiles, 1, MaxPaths)
    /\ workers \in 0..MaxWorkers
    /\ next_path = 1
    /\ in_flight = {}
    /\ load_results = <<>>
    /\ config = NoConfig
    /\ loaded_pdfs = <<>>
    /\ merged = EmptyDocument
    /\ max_id = 0
    /\ idx = 0
    /\ outcome = NoOutcome

\* PdfReader::load_sequential, taken by load_all for small batches
LoadSequential ==
    /\ pc = "load_all"
    /\ Len(paths) <= SequentialLimit
    /\ load_results' = [i \in DOMAIN paths |-> load(i, paths[i])]
    /\ pc' = "loaded"
    /\ UNCHANGED mergeVars
    /\ UNCHANGED cliVars
    /\ UNCHANGED loadVars
    /\ UNCHANGED cliVars

\* load_all enters load_parallel
StartParallel ==
    /\ pc = "load_all"
    /\ Len(paths) > SequentialLimit
    /\ pc' = "parallel"
    /\ UNCHANGED load_results
    /\ UNCHANGED mergeVars
    /\ UNCHANGED cliVars
    /\ UNCHANGED loadVars
    /\ UNCHANGED cliVars

\* workers.max(1)
Limit == IF workers >= 1 THEN workers ELSE 1

\* buffer_unordered takes the next task from the stream while the buffer
\* has room
SpawnTask ==
    /\ pc = "parallel"
    /\ next_path <= Len(paths)
    /\ Cardinality(in_flight) < Limit
    /\ in_flight' = in_flight \cup {next_path}
    /\ next_path' = next_path + 1
    /\ UNCHANGED <<pc, load_results, paths, workers>>
    /\ UNCHANGED mergeVars
    /\ UNCHANGED cliVars

\* once the buffer is full or the stream is exhausted, any task in the
\* buffer may be the next to complete; collect pushes its result
CompleteTask ==
    /\ pc = "parallel"
    /\ Cardinality(in_flight) = Limit \/ next_path > Len(paths)
    /\ \E i \in in_flight :
           /\ load_results' = Append(load_results, load(i, paths[i]))
           /\ in_flight' = in_flight \ {i}
    /\ UNCHANGED <<pc, paths, workers, next_path>>
    /\ UNCHANGED mergeVars
    /\ UNCHANGED cliVars

\* load_parallel returns the collected vector
CollectParallel ==
    /\ pc = "parallel"
    /\ next_path > Len(paths)
    /\ in_flight = {}
    /\ pc' = "loaded"
    /\ UNCHANGED load_results
    /\ UNCHANGED mergeVars
    /\ UNCHANGED cliVars
    /\ UNCHANGED loadVars
    /\ UNCHANGED cliVars

NextLoad ==
    \/ LoadSequential
    \/ StartParallel
    \/ SpawnTask
    \/ CompleteTask
    \/ CollectParallel

SpecLoad == InitLoad /\ [][NextLoad]_vars

\* ------------------------------------- PageExtractor::extract_pages alone
MaxPageNum == MaxPages + 1
RangeItems ==
    {Single(p) : p \in 1..MaxPageNum}
    \cup {Range(a, b) : a \in 1..MaxPageNum, b \in 1..MaxPageNum}
ValidRangeItems == {it \in RangeItems : it.start <= it.end}

\* extract_pages is called on a loaded document with a parsed page range
InitExtract ==
    /\ output_file = NoOutputFile
    /\ run_result = NoOutcome
    /\ pc = "extract"
    /\ \E file \in {PdfFile(n, c) : n \in 1..MaxPages, c \in {"ok", "absent"}} :
           loaded_pdfs = <<load(1, file).loaded>>
    /\ \E r \in SeqsOf(ValidRangeItems, 1, MaxRangeItems) :
           config = [NoConfig EXCEPT !.page_range = Some(r)]
    /\ merged = EmptyDocument
    /\ outcome = NoOutcome
    /\ load_results = <<>>
    /\ max_id = 0
    /\ idx = 0
    /\ paths = <<>>
    /\ workers = 0
    /\ next_path = 0
    /\ in_flight = {}

ExtractPages ==
    /\ pc = "extract"
    /\ \E r \in {extract_pages(loaded_pdfs[1].document, config.page_range[1])} :
       IF r.ok THEN merged' = r.doc /\ outcome' = [status |-> "ok"]
       ELSE outcome' = Failed(r.err) /\ UNCHANGED merged
    /\ pc' = "extracted"
    /\ UNCHANGED <<config, load_results, loaded_pdfs, max_id, idx>>
    /\ UNCHANGED loadVars
    /\ UNCHANGED cliVars

\* a later call on the returned document, with another range
ExtractAgain ==
    /\ pc = "extracted"
    /\ outcome.status = "ok"
    /\ \E r \in SeqsOf(ValidRangeItems, 1, 1) :
           /\ config' = [config EXCEPT !.page_range = Some(r)]
           /\ loaded_pdfs' = <<[loaded_pdfs[1] EXCEPT !.document = merged,
                                   !.page_count = Len(get_pages(merged))]>>
    /\ pc' = "extract"
    /\ merged' = EmptyDocument
    /\ outcome' = NoOutcome
    /\ UNCHANGED <<load_results, max_id, idx>>
    /\ UNCHANGED loadVars
    /\ UNCHANGED cliVars

NextExtract == ExtractPages \/ ExtractAgain

SpecExtract == InitExtract /\ [][NextExtract]_vars

\* ---------------------------------- PageExtractor::rotate_all_pages alone
\* the Rotate entry of a page of an input file: absent, or any integer
RotateValues ==
    {None} \cup {Some(90 * k) : k \in (0 - MaxTurns)..MaxTurns}
    \cup {Some(0 - 45), Some(45)}

\* doc with the Rotate entry of its k-th page object as rotates[k] has it
WithRotations(doc, rotates) ==
    [doc EXCEPT !.objects =
        [id \in DOMAIN doc.objects |->
            IF doc.objects[id].kind = "Page"
            THEN [doc.objects[id] EXCEPT !.Rotate = rotates[id - 2]]
            ELSE doc.objects[id]]]

\* rotate_all_pages is called on a loaded document, as it was loaded or after
\* an extraction of its first page, with one of the three rotations
InitRotate ==
    /\ output_file = NoOutputFile
    /\ run_result = NoOutcome
    /\ pc = "rotate"
    /\ \E d \in Rotations \ {None}, range \in {None, Some(<<Single(1)>>)} :
           config = [NoConfig EXCEPT !.rotation = d, !.page_range = range]
    /\ \E n \in 1..MaxPages :
           \E rotates \in [1..n -> RotateValues] :
               loaded_pdfs =
                   <<[document |-> WithRotations(ParsedDocument(1, PdfFile(n, "ok")),
                                                 rotates),
                      path |-> 1, page_count |-> n]>>
    /\ merged = IF config.page_range = None THEN loaded_pdfs[1].document
                ELSE extract_pages(loaded_pdfs[1].document, config.page_range[1]).doc
    /\ idx = 0
    /\ outcome = NoOutcome
    /\ load_results = <<>>
    /\ max_id = 0
    /\ paths = <<>>
    /\ workers = 0
    /\ next_path = 0
    /\ in_flight = {}

\* one call of rotate_all_pages on the document; outcome keeps the document
\* the call was given
RotateAll ==
    /\ pc \in {"rotate", "rotated"}
    /\ idx < MaxRotations
    /\ \E r \in {rotate_all_pages(merged, config.rotation[1])} :
       IF r.ok THEN merged' = r.doc /\ outcome' = [status |-> "ok", input |-> merged]
       ELSE outcome' = Failed(r.err) /\ UNCHANGED merged
    /\ idx' = idx + 1
    /\ pc' = "rotated"
    /\ UNCHANGED <<config, load_results, loaded_pdfs, max_id>>
    /\ UNCHANGED loadVars
    /\ UNCHANGED cliVars

NextRotate == RotateAll

SpecRotate == InitRotate /\ [][NextRotate]_vars

\* --------------------------------------------- the bookmark API alone
RECURSIVE absorb_all(_, _, _, _)
\* the absorb loop of merge_documents over sources i, i+1, ...
absorb_all(merged_doc, running_max, sources, i) ==
    IF i > Len(sources) THEN merged_doc
    ELSE absorb_all(absorb(merged_doc, running_max, sources[i].document, NoConfig).doc,
                    absorb(merged_doc, running_max, sources[i].document, NoConfig).max_id,
                    sources, i + 1)

\* the document merge_documents returns for the sources under the default
\* configuration: absorbed in order, then renumbered
MergedDocument(sources) ==
    renumber_objects(absorb_all(sources[1].document, sources[1].document.max_id,
                                sources, 2))

\* the bookmark API is called on the result of a merge without bookmarks
InitBookmarks ==
    /\ output_file = NoOutputFile
    /\ run_result = NoOutcome
    /\ pc = "bookmark_api"
    /\ \E counts \in SeqsOf(1..MaxPages, 1, MaxSources) :
           loaded_pdfs = [i \in DOMAIN counts |-> load(i, PdfFile(counts[i], "ok")).loaded]
    /\ merged = MergedDocument(loaded_pdfs)
    /\ idx = 0
    /\ outcome = NoOutcome
    /\ config = NoConfig
    /\ load_results = <<>>
    /\ max_id = 0
    /\ paths = <<>>
    /\ workers = 0
    /\ next_path = 0
    /\ in_flight = {}

\* what a call of the bookmark API returned, with the call and its input
Called(call, files, input, ok) ==
    [status |-> IF ok THEN "ok" ELSE "err", call |-> call, files |-> files,
     input |-> input]

\* add_bookmarks_for_files with the paths of the first k merged files
CallAddBookmarks ==
    /\ pc = "bookmark_api"
    /\ idx < MaxCalls
    /\ \E k \in 0..Len(loaded_pdfs) :
       \E r \in {add_bookmarks_for_files(merged, [i \in 1..k |-> loaded_pdfs[i].path])} :
           /\ merged' = IF r.ok THEN r.doc ELSE merged
           /\ outcome' = Called("add", [i \in 1..k |-> loaded_pdfs[i].path], merged, r.ok)
    /\ idx' = idx + 1
    /\ UNCHANGED <<pc, config, load_results, loaded_pdfs, max_id>>
    /\ UNCHANGED loadVars
    /\ UNCHANGED cliVars

CallRemoveBookmarks ==
    /\ pc = "bookmark_api"
    /\ idx < MaxCalls
    /\ merged' = remove_bookmarks(merged)
    /\ outcome' = Called("remove", <<>>, merged, TRUE)
    /\ idx' = idx + 1
    /\ UNCHANGED <<pc, config, load_results, loaded_pdfs, max_id>>
    /\ UNCHANGED loadVars
    /\ UNCHANGED cliVars

NextBookmarks == CallAddBookmarks \/ CallRemoveBookmarks

SpecBookmarks == InitBookmarks /\ [][NextBookmarks]_vars

\* --------------------------------------- MetadataManager::set_metadata alone
\* the metadata a caller supplies: each field given or not
SuppliedMetadatas ==
    [title : {None, Some("new")}, author : {None, Some("new")},
     subject : {None, Some("new")}, keywords : {None, Some("new")}]

\* the Info dictionaries a loaded file can have
ExistingInfos ==
    [kind : {"Info"}, Title : {None, Some("old")}, Author : {None, Some("old")},
     Subject : {None, Some("old")}, Keywords : {None, Some("old")},
     Creator : {Some("other")}, Producer : {Some("other")},
     CreationDate : {Some("D:old")}, ModDate : {Some("D:old")}]

\* doc with the Info dictionary info, referred to by the trailer
WithInfo(doc, info) ==
    [doc EXCEPT !.objects = (new_object_id(doc) :> info) @@ doc.objects,
                !.trailer.Info = Some(new_object_id(doc)),
                !.max_id = new_object_id(doc)]

\* doc with a trailer Info reference that resolves to no object
WithDanglingInfo(doc) ==
    [doc EXCEPT !.trailer.Info = Some(new_object_id(doc)),
                !.max_id = new_object_id(doc)]

\* set_metadata is called on a loaded document: without an Info entry, with
\* an Info dictionary, or with an Info reference to a missing object; either
\* by a caller of the API or by the metadata stage of merge_documents
InitMetadata ==
    /\ output_file = NoOutputFile
    /\ run_result = NoOutcome
    /\ \/ pc = "metadata_api" /\ config = NoConfig
       \/ pc = "metadata" /\ \E m \in Metadatas : config = [NoConfig EXCEPT !.metadata = m]
    /\ \E n \in 1..MaxPages :
           loaded_pdfs = <<load(1, PdfFile(n, "ok")).loaded>>
    /\ \/ merged = loaded_pdfs[1].document
       \/ merged = WithDanglingInfo(loaded_pdfs[1].document)
       \/ \E info \in ExistingInfos : merged = WithInfo(loaded_pdfs[1].document, info)
    /\ idx = 0
    /\ outcome = NoOutcome
    /\ load_results = <<>>
    /\ max_id = 0
    /\ paths = <<>>
    /\ workers = 0
    /\ next_path = 0
    /\ in_flight = {}

\* one call of set_metadata; outcome keeps the arguments of the call
CallSetMetadata ==
    /\ pc = "metadata_api"
    /\ idx < MaxCalls
    /\ \E metadata \in SuppliedMetadatas :
       \E r \in {set_metadata(merged, metadata, "D:now")} :
           /\ merged' = IF r.ok THEN r.doc ELSE merged
           /\ outcome' = [status |-> IF r.ok THEN "ok" ELSE "err",
                          metadata |-> metadata, input |-> merged]
    /\ idx' = idx + 1
    /\ UNCHANGED <<pc, config, load_results, loaded_pdfs, max_id>>
    /\ UNCHANGED loadVars
    /\ UNCHANGED cliVars

NextMetadata == CallSetMetadata \/ SetMetadata

SpecMetadata == InitMetadata /\ [][NextMetadata]_vars

\* ------------------------------------------------- run (the CLI), by steps
OverwriteModes == {"Prompt", "Force", "NoClobber"}

\* the configurations the command line is parsed into
CliConfigs ==
    [continue_on_error : BOOLEAN,
     page_range : {None, Some(<<Range(1, MaxPages + 1)>>), Some(<<Single(MaxPages + 1)>>)},
     rotation : {None}, bookmarks : {FALSE}, metadata : {NoMetadata},
     compression : {"None"},
     dry_run : BOOLEAN, overwrite_mode : OverwriteModes, quiet : BOOLEAN]

\* the files at the input paths of a run
CliFiles == {MissingFile, InvalidFile, EmptyFile} \cup {PdfFile(n, "ok") : n \in 1..MaxPages}

\* the file system at the output path before the run
OutputFiles == [exists : BOOLEAN, dir_readonly : BOOLEAN, written : {FALSE}]

\* what the user may answer to the overwrite prompt
Responses == {"y", "n"}

\* run, once the arguments are parsed into a Config
InitCli ==
    /\ pc = "validate_config"
    /\ config \in CliConfigs
    /\ paths \in SeqsOf(CliFiles, 1, MaxInputs)
    /\ output_file \in OutputFiles
    /\ run_result = NoOutcome
    /\ load_results = <<>>
    /\ loaded_pdfs = <<>>
    /\ merged = EmptyDocument
    /\ max_id = 0
    /\ idx = 0
    /\ outcome = NoOutcome
    /\ workers = 0
    /\ next_path = 0
    /\ in_flight = {}

\* run: validator.validate_config(&config).await?
ValidateConfig ==
    /\ pc = "validate_config"
    /\ \E r \in {validate_config(paths, config, output_file)} :
          IF r.ok THEN pc' = "validate_output" /\ UNCHANGED run_result
          ELSE pc' = "exit" /\ run_result' = Failed(r.err)
    /\ UNCHANGED <<load_results, output_file>>
    /\ UNCHANGED mergeVars
    /\ UNCHANGED loadVars

\* run: validator.validate_output(&config).await?
ValidateOutput ==
    /\ pc = "validate_output"
    /\ \E r \in {validate_output(config, output_file)} :
          IF r.ok THEN pc' = "overwrite" /\ UNCHANGED run_result
          ELSE pc' = "exit" /\ run_result' = Failed(r.err)
    /\ UNCHANGED <<load_results, output_file>>
    /\ UNCHANGED mergeVars
    /\ UNCHANGED loadVars

\* run: handle_output_overwrite, unless in dry-run mode
HandleOutputOverwrite ==
    /\ pc = "overwrite"
    /\ \E response \in Responses :
       \E r \in {IF ~config.dry_run
                 THEN handle_output_overwrite(config, output_file, response)
                 ELSE [ok |-> TRUE]} :
          IF r.ok THEN pc' = "dry_run" /\ UNCHANGED run_result
          ELSE pc' = "exit" /\ run_result' = Failed(r.err)
    /\ UNCHANGED <<load_results, output_file>>
    /\ UNCHANGED mergeVars
    /\ UNCHANGED loadVars

\* run going on to the merge whether in dry-run mode or not
DryRunIgnored ==
    /\ pc = "dry_run"
    /\ pc' = "merge"
    /\ UNCHANGED <<load_results, output_file, run_result>>
    /\ UNCHANGED mergeVars
    /\ UNCHANGED loadVars

\* run: dry-run mode stops here
DryRunCheck ==
    /\ pc = "dry_run"
    /\ IF config.dry_run THEN pc' = "exit" /\ run_result' = [status |-> "ok"]
       ELSE pc' = "merge" /\ UNCHANGED run_result
    /\ UNCHANGED <<load_results, output_file>>
    /\ UNCHANGED mergeVars
    /\ UNCHANGED loadVars

\* run calls merge, which begins with load_all over config.inputs
StartMerge ==
    /\ pc = "merge"
    /\ load_results' = [i \in DOMAIN paths |-> load(i, paths[i])]
    /\ pc' = "separate"
    /\ UNCHANGED mergeVars
    /\ UNCHANGED loadVars
    /\ UNCHANGED cliVars

\* run: merge returned; `?` passes its error on
MergeReturned ==
    /\ pc = "done"
    /\ IF outcome.status = "ok" THEN pc' = "write" /\ UNCHANGED run_result
       ELSE pc' = "exit" /\ run_result' = Failed(outcome.err)
    /\ UNCHANGED <<load_results, output_file>>
    /\ UNCHANGED mergeVars
    /\ UNCHANGED loadVars

\* run: writer.save_with_stats(&result.document, &config.output).await?;
\* the write is atomic: on failure the output path is as it was
WriteOutput ==
    /\ pc = "write"
    /\ \E ok \in BOOLEAN :
          IF ok
          THEN /\ output_file' = [output_file EXCEPT !.exists = TRUE, !.written = TRUE]
               /\ run_result' = [status |-> "ok"]
          ELSE /\ UNCHANGED output_file
               /\ run_result' = Failed(FailedToWrite)
    /\ pc' = "exit"
    /\ UNCHANGED load_results
    /\ UNCHANGED mergeVars
    /\ UNCHANGED loadVars

NextCli ==
    \/ ValidateConfig
    \/ ValidateOutput
    \/ HandleOutputOverwrite
    \/ DryRunCheck
    \/ StartMerge
    \/ SeparateLoads
    \/ EstablishBase
    \/ AbsorbSource
    \/ AddBookmarks
    \/ SetMetadata
    \/ Compress
    \/ FinalRenumber
    \/ BuildResult
    \/ MergeReturned
    \/ WriteOutput

SpecCli == InitCli /\ [][NextCli]_vars

\* ================================================================ claims
\* number of sources that loaded
LoadedCount == Cardinality({i \in DOMAIN load_results : load_results[i].ok})
FailedCount == Len(load_results) - LoadedCount

\* page numbers of an n-page source the configured range selects, ascending
SelectedPages(n, range_opt) ==
    SelectSeq([p \in 1..n |-> p],
              LAMBDA p : range_opt = None \/ contains(range_opt[1], p))

RECURSIVE ContributedFrom(_)
\* pages contributed by loaded sources i, i+1, ...
ContributedFrom(i) ==
    IF i > Len(loaded_pdfs) THEN 0
    ELSE Len(SelectedPages(loaded_pdfs[i].page_count, config.page_range))
         + ContributedFrom(i + 1)

\* C1: a successful merge reports files_merged = number of loaded sources and
\* a page count equal to the sum of the pages each source contributes.
C1_PageCountIsSum ==
    outcome.status = "ok" =>
        /\ outcome.statistics.files_merged = LoadedCount
        /\ outcome.statistics.total_pages = ContributedFrom(1)
        /\ Len(get_pages(outcome.document)) = ContributedFrom(1)

RECURSIVE ExpectedContent(_, _)
\* the pages of loaded sources i..last the merged page tree must list
ExpectedContent(i, last) ==
    IF i > last THEN <<>>
    ELSE LET sel == SelectedPages(loaded_pdfs[i].page_count, config.page_range)
         IN [k \in DOMAIN sel |-> <<loaded_pdfs[i].path, sel[k]>>]
            \o ExpectedContent(i + 1, last)

Kids(doc) == doc.objects[pages_root(doc)[1]].Kids
NoRepeat(s) == \A i, j \in DOMAIN s : s[i] = s[j] => i = j

\* C2: during and after the absorb loop the Kids of the merged Pages root
\* are the selected pages of the base followed by those of each absorbed
\* source, in loaded-source order, each reference once.
C2_KidsInSourceOrder ==
    pc \in {"absorb", "bookmarks"} =>
        /\ pages_root(merged) # None
        /\ \A k \in DOMAIN Kids(merged) : IsPage(merged, Kids(merged)[k])
        /\ [k \in DOMAIN Kids(merged) |-> merged.objects[Kids(merged)[k]].Content]
               = ExpectedContent(1, idx - 1)
        /\ NoRepeat(Kids(merged))

C2_Witness ==
    /\ pc = "bookmarks"
    /\ Len(loaded_pdfs) = 3
    /\ config.page_range = Some(<<Single(2), Single(1)>>)
    /\ Len(Kids(merged)) = 5

NoDangling(doc) ==
    /\ TrailerRefs(doc.trailer) \subseteq DOMAIN doc.objects
    /\ \A id \in DOMAIN doc.objects : Refs(doc.objects[id]) \subseteq DOMAIN doc.objects

\* C3: in the result of a successful merge every reference, in an object or
\* in the trailer, resolves to an object of the result.
C3_NoDanglingReferences ==
    outcome.status = "ok" => NoDangling(outcome.document)

C3_Witness ==
    /\ outcome.status = "ok"
    /\ Len(loaded_pdfs) >= 2
    /\ config.bookmarks
    /\ ~is_empty(config.metadata)
    /\ config.page_range # None
    /\ config.rotation # None
    /\ config.compression = "Maximum"

WatermarkCoversObjects(doc) == \A id \in DOMAIN doc.objects : id <= doc.max_id

\* C4: whenever the pipeline allocates an identifier on the merged graph
\* (outline root and items, a new Info dictionary) the watermark is at least
\* every identifier of the object map, so the new identifier is unused.
C4_AllocatedIdsAreFresh ==
    /\ (pc = "bookmarks" /\ config.bookmarks) => WatermarkCoversObjects(merged)
    /\ (pc = "metadata" /\ ~is_empty(config.metadata) /\ merged.trailer.Info = None)
           => /\ WatermarkCoversObjects(merged)
              /\ new_object_id(merged) \notin DOMAIN merged.objects

CountMatchesKids(doc) ==
    /\ pages_root(doc) # None
    /\ doc.objects[pages_root(doc)[1]].Count = Some(Len(Kids(doc)))

\* C5: after a successful splice (an absorb step) or extraction rewrite the
\* Count of the Pages root is the length of its Kids, whatever Count was.
C5_CountEqualsKids ==
    (pc \in {"absorb", "bookmarks"} /\ (idx >= 3 \/ config.page_range # None))
        => CountMatchesKids(merged)

LoadedPaths == SelectSeq([i \in DOMAIN load_results |-> i],
                         LAMBDA i : load_results[i].ok)

\* C6 as stated: with continue_on_error and 0 < k < n failing loads the merge
\* succeeds with files_merged = n - k and merged_files the loaded sources;
\* with k = n it fails with NoFilesToMerge.
C6_ContinueOnErrorAlwaysSucceeds ==
    (pc = "done" /\ config.continue_on_error /\ FailedCount > 0) =>
        IF LoadedCount = 0 THEN outcome = Failed(NoFilesToMerge)
        ELSE /\ outcome.status = "ok"
             /\ outcome.statistics.files_merged = Len(load_results) - FailedCount
             /\ outcome.merged_files = LoadedPaths

\* every loaded source has a page in the configured range
EverySourceSelected ==
    \A i \in DOMAIN load_results :
        load_results[i].ok =>
            SelectedPages(load_results[i].loaded.page_count, config.page_range) # <<>>

\* C6 (amended): with continue_on_error and 0 < k < n failing loads the merge
\* succeeds with files_merged = n - k and merged_files the loaded sources in
\* load-result order, unless the range selects no page of some loaded source,
\* and then it fails with MergeFailed; with k = n it fails with
\* NoFilesToMerge.
C6_ContinueOnError ==
    (pc = "done" /\ config.continue_on_error /\ FailedCount > 0) =>
        IF LoadedCount = 0 THEN outcome = Failed(NoFilesToMerge)
        ELSE IF EverySourceSelected
        THEN /\ outcome.status = "ok"
             /\ outcome.statistics.files_merged = Len(load_results) - FailedCount
             /\ outcome.merged_files = LoadedPaths
        ELSE outcome = Failed(MergeFailed("No pages in range"))

C6_Witness ==
    /\ pc = "done"
    /\ config.continue_on_error
    /\ Len(load_results) = 3
    /\ ~load_results[2].ok
    /\ outcome.status = "ok"
    /\ outcome.merged_files = <<1, 3>>

FirstFailure == CHOOSE i \in DOMAIN load_results :
                    /\ ~load_results[i].ok
                    /\ \A j \in 1..(i - 1) : load_results[j].ok

\* C7: without continue_on_error a failed load makes merge return the error
\* of the first failing load result; the pipeline is never entered and no
\* MergeResult is produced.
C7_FirstLoadErrorAborts ==
    (~config.continue_on_error /\ FailedCount > 0) =>
        /\ pc \in {"separate", "done"}
        /\ loaded_pdfs = <<>>
        /\ merged = EmptyDocument
        /\ pc = "done" => outcome = Failed(load_results[FirstFailure].err)

C7_Witness ==
    /\ pc = "done"
    /\ ~config.continue_on_error
    /\ Len(load_results) = 3
    /\ load_results[1].ok
    /\ ~load_results[2].ok
    /\ ~load_results[3].ok
    /\ outcome = Failed(FailedToLoadPdf(2))

\* C8: load_all returns one result per path and result i is the outcome for
\* path i.
C8_ResultsInInputOrder ==
    pc = "loaded" =>
        /\ Len(load_results) = Len(paths)
        /\ \A i \in DOMAIN load_results : load_results[i] = load(i, paths[i])

\* the range names a page number outside [1, n]
NamesPageOutside(page_range, n) ==
    \E i \in DOMAIN page_range : page_range[i].start < 1 \/ page_range[i].end > n

\* C9: extract_pages fails with InvalidPageRange{total_pages = max_pages}
\* whenever the range names a page number outside [1, max_pages].
C9_OutOfRangeRejected ==
    (pc = "extracted"
     /\ NamesPageOutside(config.page_range[1], loaded_pdfs[1].page_count))
        => outcome = Failed(InvalidPageRange(loaded_pdfs[1].page_count))

\* C10: a successful extract_pages returns a graph whose Kids are the
\* identifiers of the selected pages, each once, in ascending page-number
\* order, whose Count is their number, and which differs from the input
\* graph in the Pages root only.
C10_ExtractSelectsAscending ==
    (pc = "extracted" /\ outcome.status = "ok") =>
        LET input == loaded_pdfs[1].document
            sel == SelectedPages(Len(Kids(input)), config.page_range)
        IN /\ Kids(merged) = [k \in DOMAIN sel |-> Kids(input)[sel[k]]]
           /\ NoRepeat(Kids(merged))
           /\ merged.objects[pages_root(merged)[1]].Count = Some(Len(sel))
           /\ DOMAIN merged.objects = DOMAIN input.objects
           /\ \A id \in DOMAIN input.objects :
                  id # pages_root(input)[1] => merged.objects[id] = input.objects[id]
           /\ merged.trailer = input.trailer
           /\ merged.max_id = input.max_id

C10_Witness ==
    /\ pc = "extracted"
    /\ outcome.status = "ok"
    /\ config.page_range = Some(<<Range(2, 2), Range(1, 2)>>)
    /\ Len(Kids(loaded_pdfs[1].document)) = 2
    /\ Len(Kids(merged)) = 2

\* the configured range selects no page of loaded source i
NoPageSelected(i) ==
    SelectedPages(loaded_pdfs[i].page_count, config.page_range) = <<>>

\* C11: extract_pages on a source whose pages the range does not select fails
\* with MergeFailed, and otherwise returns a document with at least one
\* page; a merge with such a source among the loaded ones fails with
\* MergeFailed.
C11_EmptySelectionFails ==
    /\ \A i \in DOMAIN loaded_pdfs :
           config.page_range # None =>
               LET r == extract_pages(loaded_pdfs[i].document, config.page_range[1])
               IN IF NoPageSelected(i)
                  THEN ~r.ok /\ r.err.variant = "MergeFailed"
                  ELSE r.ok /\ get_pages(r.doc) # <<>>
    /\ (pc = "done" /\ \E i \in DOMAIN loaded_pdfs : NoPageSelected(i))
           => (outcome.status = "err" /\ outcome.err.variant = "MergeFailed")

C11_Witness ==
    /\ pc = "done"
    /\ Len(loaded_pdfs) = 2
    /\ ~NoPageSelected(1)
    /\ NoPageSelected(2)
    /\ outcome = Failed(MergeFailed("No pages in range"))

\* C12: after rotate_all_pages by d every enumerated page has Rotate equal to
\* the remainder in 0..359 of (previous Rotate, or 0 when absent) + d, for
\* every integer previous value; every other object, the trailer and the
\* watermark are unchanged.
C12_RotateAddsModulo360 ==
    (pc = "rotated" /\ outcome.status = "ok") =>
        LET before == outcome.input
            d == config.rotation[1]
        IN /\ DOMAIN merged.objects = DOMAIN before.objects
           /\ \A id \in DOMAIN before.objects :
                  merged.objects[id] =
                      IF id \in SeqSet(get_pages(before))
                      THEN [before.objects[id] EXCEPT
                               !.Rotate = Some((UnwrapOr(@, 0) + d) % 360)]
                      ELSE before.objects[id]
           /\ merged.trailer = before.trailer
           /\ merged.max_id = before.max_id

\* C14: for every initial Rotate value, rotate_all_pages by 90 applied twice
\* leaves the document as rotate_all_pages by 180 applied once leaves it.
C14_TwoQuarterTurnsAreAHalfTurn ==
    (pc = "rotated" /\ idx = 2 /\ config.rotation = Some(90)) =>
        LET input == IF config.page_range = None THEN loaded_pdfs[1].document
                     ELSE extract_pages(loaded_pdfs[1].document,
                                        config.page_range[1]).doc
        IN merged = rotate_all_pages(input, 180).doc

\* the Rotate entry that page `content` has in the source it was loaded from
SourceRotate(content) ==
    LET i == CHOOSE j \in DOMAIN loaded_pdfs : loaded_pdfs[j].path = content[1]
    IN loaded_pdfs[i].document.objects[2 + content[2]].Rotate

\* C13: in the result of a successful merge with rotation d every page has
\* Rotate equal to the remainder in 0..359 of (its source value, or 0 when
\* absent) + d: each page is rotated once; without a rotation every page
\* keeps its source value.
C13_EachPageRotatedOnce ==
    outcome.status = "ok" =>
        \A id \in SeqSet(get_pages(outcome.document)) :
            LET page == outcome.document.objects[id]
                src == SourceRotate(page.Content)
            IN page.Rotate =
                   IF config.rotation = None THEN src
                   ELSE Some((UnwrapOr(src, 0) + config.rotation[1]) % 360)

RECURSIVE FollowNext(_, _, _)
\* the identifiers met from id_opt on by following Next, at most fuel of them
FollowNext(doc, id_opt, fuel) ==
    IF id_opt = None \/ fuel = 0 THEN <<>>
    ELSE IF id_opt[1] \notin DOMAIN doc.objects
            \/ doc.objects[id_opt[1]].kind # "OutlineItem"
    THEN <<id_opt[1]>>
    ELSE <<id_opt[1]>> \o FollowNext(doc, doc.objects[id_opt[1]].Next, fuel - 1)

\* the outline root the catalog refers to
OutlineRoot(doc) == doc.objects[catalog_id(doc)[1]].Outlines

\* the outline of doc as the chain from the root's First
OutlineChain(doc) ==
    IF ~has_bookmarks(doc) \/ OutlineRoot(doc)[1] \notin DOMAIN doc.objects
       \/ doc.objects[OutlineRoot(doc)[1]].kind # "Outlines"
    THEN <<>>
    ELSE FollowNext(doc, doc.objects[OutlineRoot(doc)[1]].First,
                    Cardinality(DOMAIN doc.objects) + 1)

\* item number i of the chain is titled title and points at the page content
ItemPointsAt(doc, chain, i, title, content) ==
    /\ chain[i] \in DOMAIN doc.objects
    /\ doc.objects[chain[i]].kind = "OutlineItem"
    /\ doc.objects[chain[i]].Title = title
    /\ IsPage(doc, doc.objects[chain[i]].Dest)
    /\ doc.objects[doc.objects[chain[i]].Dest].Content = content

SameCounts == \A i, j \in DOMAIN loaded_pdfs :
                  loaded_pdfs[i].page_count = loaded_pdfs[j].page_count

\* C15: a successful merge with bookmarks of n sources of equal page count
\* has every contributed page and an outline of exactly n items in input
\* order, item i titled with source i and pointing at the first page source i
\* contributed.
C15_BookmarkPerSource ==
    (outcome.status = "ok" /\ config.bookmarks /\ SameCounts) =>
        LET doc == outcome.document
            chain == OutlineChain(doc)
        IN /\ Len(get_pages(doc)) = ContributedFrom(1)
           /\ Len(chain) = Len(loaded_pdfs)
           /\ \A i \in DOMAIN loaded_pdfs :
                  ItemPointsAt(doc, chain, i, loaded_pdfs[i].path,
                               <<loaded_pdfs[i].path,
                                 SelectedPages(loaded_pdfs[i].page_count,
                                               config.page_range)[1]>>)

\* the last call was add_bookmarks_for_files with a non-empty file list
AddedBookmarks == outcome.status # "none" /\ outcome.call = "add" /\ outcome.files # <<>>

\* C16: after create_outline_structure over m >= 1 items the root's Count is
\* m, First and Last are items 1 and m, the chain from First along Next
\* visits exactly the m created items once each and ends at Last, Prev
\* mirrors Next, the ends have no Prev and no Next, and every item's Parent
\* is the root.
C16_OutlineChainWellFormed ==
    AddedBookmarks =>
        LET created == DOMAIN merged.objects \ DOMAIN outcome.input.objects
            root == OutlineRoot(merged)[1]
            m == Cardinality(created) - 1
            chain == OutlineChain(merged)
            item(i) == merged.objects[chain[i]]
        IN /\ outcome.status = "ok"
           /\ m >= 1
           /\ root \in created
           /\ merged.objects[root].kind = "Outlines"
           /\ merged.objects[root].Count = m
           /\ Len(chain) = m
           /\ NoRepeat(chain)
           /\ SeqSet(chain) = created \ {root}
           /\ merged.objects[root].First = Some(chain[1])
           /\ merged.objects[root].Last = Some(chain[m])
           /\ \A i \in 1..m :
                  /\ item(i).kind = "OutlineItem"
                  /\ item(i).Parent = root
                  /\ item(i).Prev = IF i > 1 THEN Some(chain[i - 1]) ELSE None
                  /\ item(i).Next = IF i < m THEN Some(chain[i + 1]) ELSE None

C16_Witness ==
    /\ AddedBookmarks
    /\ Len(OutlineChain(merged)) = 3
    /\ has_bookmarks(outcome.input)

\* C17: after add_bookmarks_for_files with a non-empty file list
\* has_bookmarks is true, after remove_bookmarks it is false, whatever calls
\* came before; add_bookmarks_for_files with an empty list succeeds and
\* leaves the document as it was.
C17_HasBookmarksFollowsLastCall ==
    outcome.status # "none" =>
        /\ outcome.status = "ok"
        /\ AddedBookmarks => has_bookmarks(merged)
        /\ outcome.call = "remove" => ~has_bookmarks(merged)
        /\ (outcome.call = "add" /\ outcome.files = <<>>) =>
               /\ merged = outcome.input
               /\ has_bookmarks(merged) = has_bookmarks(outcome.input)

C17_Witness ==
    /\ idx = 3
    /\ outcome.call = "remove"
    /\ has_bookmarks(outcome.input)
    /\ ~has_bookmarks(merged)

\* C18: after add_bookmarks_for_files with the paths of all merged sources,
\* whatever their page counts, item i of the outline is titled with source i
\* and points at the first page source i contributed.
C18_BookmarkAtStartOfEachSource ==
    (AddedBookmarks /\ Len(outcome.files) = Len(loaded_pdfs)) =>
        /\ Len(OutlineChain(merged)) = Len(loaded_pdfs)
        /\ \A i \in DOMAIN loaded_pdfs :
               ItemPointsAt(merged, OutlineChain(merged), i, loaded_pdfs[i].path,
                            <<loaded_pdfs[i].path, 1>>)

\* C19: the result of every successful merge has the identifiers 1..N, N the
\* number of its objects, and the watermark N.
C19_ResultIdsAreOneToN ==
    outcome.status = "ok" =>
        LET N == Cardinality(DOMAIN outcome.document.objects)
        IN /\ DOMAIN outcome.document.objects = 1..N
           /\ outcome.document.max_id = N

\* a result whose graph had gaps before the final renumbering: objects of
\* the absorbed source were pruned
C19_Witness ==
    /\ outcome.status = "ok"
    /\ Len(loaded_pdfs) = 2
    /\ config.compression = "Maximum"
    /\ Cardinality(DOMAIN outcome.document.objects)
           < Len(loaded_pdfs[1].document.objects) + Len(loaded_pdfs[2].document.objects)

\* the Info dictionary doc has, or an empty one
InfoOf(doc) ==
    IF doc.trailer.Info # None /\ doc.trailer.Info[1] \in DOMAIN doc.objects
    THEN doc.objects[doc.trailer.Info[1]] ELSE EmptyInfo

\* the field is the supplied value, or the previous one when none is supplied
Written(supplied, previous, now) ==
    now = IF supplied # None THEN supplied ELSE previous

C21_EmptyMetadataIsNoOp ==
    /\ [](outcome.status # "none" /\ is_empty(outcome.metadata)
            => outcome.status = "ok" /\ merged = outcome.input)
    /\ [][(pc = "metadata" /\ is_empty(config.metadata)) => merged' = merged]_vars

\* an empty set_metadata call was made on a document that has an Info
\* dictionary
C21_Witness ==
    /\ pc = "metadata_api"
    /\ outcome.status = "ok"
    /\ is_empty(outcome.metadata)
    /\ outcome.input.trailer.Info # None
    /\ outcome.input.trailer.Info[1] \in DOMAIN outcome.input.objects

\* C22: continue_on_error covers load failures only. With it set, a loaded
\* source of which the configured range selects no page is never passed
\* over by the pipeline: no later stage is reached with such a source behind
\* it, merge returns the MergeFailed error of the extraction and no
\* MergeResult; when every loaded source has a selected page the merge
\* succeeds with all the loaded sources.
C22_ContinueOnErrorCoversLoadOnly ==
    config.continue_on_error =>
        /\ pc \in {"absorb", "bookmarks", "metadata", "compress", "renumber",
                   "statistics"}
               => \A i \in 1..(idx - 1) : ~NoPageSelected(i)
        /\ (pc = "done" /\ loaded_pdfs # <<>>) =>
               IF \E i \in DOMAIN loaded_pdfs : NoPageSelected(i)
               THEN outcome = Failed(MergeFailed("No pages in range"))
               ELSE /\ outcome.status = "ok"
                    /\ outcome.merged_files
                           = [i \in DOMAIN loaded_pdfs |-> loaded_pdfs[i].path]

\* with continue_on_error, one load failed and was skipped, and the second
\* loaded source has no page in the range: the merge failed
C22_Witness ==
    /\ pc = "done"
    /\ config.continue_on_error
    /\ FailedCount = 1
    /\ Len(loaded_pdfs) = 2
    /\ ~NoPageSelected(1)
    /\ NoPageSelected(2)
    /\ outcome.status = "err"
    /\ outcome.err.variant = "MergeFailed"

\* C23: merging a configuration whose only input is a path that does not
\* exist, without continue_on_error, fails with the FileNotFound error.
C23_MissingInputIsFileNotFound ==
    (pc = "done" /\ ~config.continue_on_error /\ paths = <<MissingFile>>)
        => outcome = Failed(FileNotFound(1))

\* the configured range names a page beyond the page count of an input
\* document that validates
RangeBeyondSomeInput ==
    /\ config.page_range # None
    /\ \E i \in DOMAIN paths :
           /\ validate_file(i, paths[i]).ok
           /\ NamesPageOutside(config.page_range[1],
                               validate_file(i, paths[i]).result.page_count)

\* C24: validate_config fails when the configured page range requests pages
\* beyond an input document's page count: once it has returned, the run is
\* over with an error and no merge was started.
C24_ValidateConfigRejectsRangeBeyondCount ==
    (pc # "validate_config" /\ RangeBeyondSomeInput) =>
        /\ pc = "exit"
        /\ run_result.status = "err"
        /\ load_results = <<>>

\* the steps of run up to the dry-run check, and its return
ValidationSteps == {"validate_config", "validate_output", "overwrite", "dry_run", "exit"}

\* C26: in dry-run mode the run ends after validation: the merge is never
\* started and the output path is never written; outside dry-run mode the
\* write step is reached, and the output written, only after merge returned
\* a MergeResult.
C26_DryRunStopsAfterValidation ==
    /\ config.dry_run =>
           /\ pc \in ValidationSteps
           /\ load_results = <<>> /\ loaded_pdfs = <<>> /\ merged = EmptyDocument
           /\ outcome = NoOutcome
           /\ ~output_file.written
           /\ (pc = "exit" /\ run_result.status = "ok") => validate_config(paths, config, output_file).ok
    /\ (pc = "write" \/ output_file.written) =>
           /\ ~config.dry_run
           /\ outcome.status = "ok"
    /\ output_file.written => (pc = "exit" /\ run_result.status = "ok")

\* a dry run over two valid inputs, with an output file that exists already,
\* returned successfully
C26_Witness ==
    /\ pc = "exit"
    /\ config.dry_run
    /\ run_result.status = "ok"
    /\ Len(paths) = 2
    /\ output_file.exists
    /\ ~output_file.written

\* the outline items of doc
OutlineItems(doc) ==
    {id \in DOMAIN doc.objects : doc.objects[id].kind = "OutlineItem"}

\* C25: in the statistics of a successful merge bookmarks_added is the
\* number of outline items the merge added: the items of the result when
\* bookmarks are enabled, 0 when they are disabled.
C25_BookmarksAddedCountsItems ==
    outcome.status = "ok" =>
        outcome.statistics.bookmarks_added
            = IF config.bookmarks THEN Cardinality(OutlineItems(outcome.document))
              ELSE 0

\* the highest identifier among the objects of doc
HighestId(doc) ==
    CHOOSE m \in DOMAIN doc.objects : \A id \in DOMAIN doc.objects : id <= m

\* one iteration of the absorb loop that went through
AbsorbStep == pc = "absorb" /\ pc' \in {"absorb", "bookmarks"}

\* C27: at every absorb step the running max id is the highest identifier
\* of the accumulated graph and the source is renumbered from one more than
\* it: the identifiers the step adds are above all those already present
\* and begin at max id + 1, no object already present is replaced by an
\* object of the source, the object count grows by exactly the source's
\* object count, and the max id handed to the next step is strictly larger
\* and is again the highest identifier present.
C27_AbsorbRenumbersAboveMaxId ==
    [][AbsorbStep =>
          /\ max_id = HighestId(merged)
          /\ \A id \in DOMAIN merged'.objects \ DOMAIN merged.objects : id > max_id
          /\ max_id + 1 \in DOMAIN merged'.objects
          /\ DOMAIN merged.objects \subseteq DOMAIN merged'.objects
          /\ \A id \in DOMAIN merged.objects \ {pages_root(merged)[1]} :
                 merged'.objects[id] = merged.objects[id]
          /\ Cardinality(DOMAIN merged'.objects)
                 = Cardinality(DOMAIN merged.objects)
                   + Cardinality(DOMAIN loaded_pdfs[idx].document.objects)
          /\ max_id' > max_id
          /\ max_id' = HighestId(merged')]_vars

\* three two-page sources were absorbed: twelve objects, none lost
C27_Witness ==
    /\ pc = "bookmarks"
    /\ Len(loaded_pdfs) = 3
    /\ \A i \in 1..3 : loaded_pdfs[i].page_count = 2
    /\ max_id = 12
    /\ Cardinality(DOMAIN merged.objects) = 12

\* every object of doc is reachable from its trailer
AllReachable(doc) == DOMAIN doc.objects \subseteq Reachable(doc)

\* C28: with compression Maximum the compaction stage keeps exactly the
\* objects reachable from the trailer, unaltered, and every object of the
\* merge result is reachable from the trailer; with compression None the
\* compaction stage removes and alters nothing.
C28_MaximumPrunesNoneKeeps ==
    /\ [][pc = "compress" =>
             /\ config.compression = "None" => merged' = merged
             /\ config.compression = "Maximum" =>
                    /\ AllReachable(merged')
                    /\ DOMAIN merged'.objects = Reachable(merged) \cap DOMAIN merged.objects
                    /\ \A id \in DOMAIN merged'.objects :
                           merged'.objects[id] = merged.objects[id]
                    /\ merged'.trailer = merged.trailer]_vars
    /\ []((outcome.status = "ok" /\ config.compression = "Maximum")
              => AllReachable(outcome.document))

\* a merge at level Maximum of two two-page sources of which the range
\* selects the first page only: the second pages and the second catalog
\* are gone from the result
C28_Witness ==
    /\ outcome.status = "ok"
    /\ config.compression = "Maximum"
    /\ config.page_range = Some(<<Single(1)>>)
    /\ Len(loaded_pdfs) = 2
    /\ \A i \in 1..2 : loaded_pdfs[i].page_count = 2
    /\ ~config.bookmarks
    /\ is_empty(config.metadata)
    /\ Cardinality(DOMAIN outcome.document.objects) = 5
    /\ Len(Kids(outcome.document)) = 2

\* C29: remove_bookmarks always succeeds and changes nothing but the
\* catalog's Outlines entry: the object map keeps its identifiers and every
\* object other than the catalog (outline root and items included), the
\* catalog keeps its other entries, the page tree, the max id and the
\* trailer are unchanged; on a document without an Outlines entry nothing
\* changes at all.
C29_RemoveBookmarksTouchesOutlinesEntryOnly ==
    (outcome.status # "none" /\ outcome.call = "remove") =>
        /\ outcome.status = "ok"
        /\ DOMAIN merged.objects = DOMAIN outcome.input.objects
        /\ \A id \in DOMAIN merged.objects :
               id # catalog_id(outcome.input)[1]
                   => merged.objects[id] = outcome.input.objects[id]
        /\ merged.objects[catalog_id(outcome.input)[1]]
               = [outcome.input.objects[catalog_id(outcome.input)[1]]
                     EXCEPT !.Outlines = None]
        /\ get_pages(merged) = get_pages(outcome.input)
        /\ merged.max_id = outcome.input.max_id
        /\ merged.trailer = outcome.input.trailer
        /\ ~has_bookmarks(merged)
        /\ ~has_bookmarks(outcome.input) => merged = outcome.input

\* bookmarks were removed from a document that had an outline of two
\* items: the root and the items are still in the object map
C29_Witness ==
    /\ outcome.status = "ok"
    /\ outcome.call = "remove"
    /\ has_bookmarks(outcome.input)
    /\ Len(OutlineChain(outcome.input)) = 2
    /\ OutlineRoot(outcome.input)[1] \in DOMAIN merged.objects
    /\ \A i \in 1..2 : OutlineChain(outcome.input)[i] \in DOMAIN merged.objects
    /\ ~has_bookmarks(merged)

\* C30: after the absorb loop every page listed in the Kids of the merged
\* Pages root has that Pages root as its Parent, the pages absorbed from
\* the sources after the base included.
C30_KidsParentIsMergedRoot ==
    pc = "bookmarks" =>
        \A k \in DOMAIN Kids(merged) :
            /\ IsPage(merged, Kids(merged)[k])
            /\ merged.objects[Kids(merged)[k]].Parent = pages_root(merged)[1]

====
